---- MODULE Spec2Model ----
(***************************************************************************)
(* State-machine model of lib/publisher.js (node-sdc-changefeed): the      *)
(* Publisher constructor with its moray 'connect' handler and websocket    *)
(* handlers, start/stop, the _poll interval callback with its findObjects  *)
(* 'record'/'end'/'error' handlers, publish/_putObject and _setupBucket.   *)
(*                                                                         *)
(* Every handler runs to completion on node's single event loop, so each   *)
(* handler is one action.  The moray server, the timers and the websocket  *)
(* peers are the environment: their callbacks are enabled whenever the     *)
(* corresponding request, timer or connection is outstanding.              *)
(***************************************************************************)
EXTENDS Integers, Sequences, FiniteSets, TLC

\* ---- bounds of the model ------------------------------------------------
MaxConns   == 2   \* websocket upgrades accepted
MaxTexts   == 2   \* 'text' frames received over all connections
MaxStarts  == 2   \* calls of start()
MaxTicks   == 2   \* firings of the _poll interval callback
MaxPublish == 2   \* calls of publish()

\* ---- input domains -------------------------------------------------------
Conns     == 1..MaxConns

\* options.resources: the configured resource descriptors (line 71).
resources == << [resource |-> "vm"] >>

\* Registration payloads a listener may send (JSON objects with instance and
\* changeKind), flattened: changeKind.resource, changeKind.subResources.
Registrations ==
    { [instance |-> "i1", resource |-> "vm",  subResources |-> <<"nics">>],
      [instance |-> "i1", resource |-> "vm",  subResources |-> <<"nics", "tags">>],
      [instance |-> "i2", resource |-> "vm",  subResources |-> <<"tags">>],
      [instance |-> "i2", resource |-> "net", subResources |-> <<"nics">>] }

\* Items a producer may hand to publish().  The third is of a resource that
\* is not configured, the fourth has a member JSON.stringify cannot
\* serialize.
Items ==
    { [resource |-> "vm",  subResources |-> <<"tags">>,         published |-> "no"],
      [resource |-> "vm",  subResources |-> <<"nics", "tags">>, published |-> "no"],
      [resource |-> "net", subResources |-> <<"nics">>,         published |-> "no"],
      [resource |-> "vm",  subResources |-> <<"nics">>,         published |-> "no",
       unserializable |-> TRUE] }

\* JSON.stringify: the wire text of an object.  A text is a tagged tuple, so
\* that a text is never equal to the object it encodes.
JSONstringify(obj) == <<"json", obj>>

\* JSON.stringify throws on a value it cannot serialize.
JSONstringifyThrows(obj) == "unserializable" \in DOMAIN obj

\* null where a text is expected.
Null == <<"null">>

\* A text frame that is not JSON.
Garbage == <<"garbage">>

\* The text frames a listener may send as its messages.
Texts == { JSONstringify(r) : r \in Registrations } \cup { Garbage }

\* JSON.parse: defined on the texts JSONstringify produces, throws otherwise.
JSONparseThrows(text) == text[1] # "json"
JSONparse(text) == text[2]

VARIABLES
    budget,         \* how much the environment does in a run: the websockets it
                    \* opens, the text frames it sends, the start() calls, the
                    \* ticks and the publish() calls it makes
    moray,          \* morayClient: "connecting", "connected" or "closed"
    bucket,         \* the bucket on the moray server: [exists, index]
    setup,          \* _setupBucket: [pc, getErr, cbs]; getErr is the error getBucket
                    \* gave, cbs the errors cb was called with, in order
    emitted,        \* events emitted by the publisher, counted by name
    conn,           \* per websocket: "none", "open" or "closed"
    listening,      \* per websocket: is the once('text') listener still attached
    sent,           \* per websocket: the texts passed to websocket.send, in order
    registrations,  \* self.registrations: instance -> registration
    websockets,     \* self.websockets: instance -> websocket
    uncaught,       \* number of exceptions that escaped a handler
    texts,          \* history, per websocket: 'text' frames received so far
    registered,     \* history, per websocket: the instance it registered, or ""
    pollInterval,   \* self.pollInterval: 0 for null, else a timer handle
    timers,         \* the interval timers that are active
    nStarts,        \* calls of start() so far
    halted,         \* stop() has returned and start() was not called since
    clock,          \* Date.now()
    reqs,           \* findObjects requests, one per tick, in tick order
    store,          \* the bucket's objects: key -> value
    writes,         \* putObject requests in flight
    nextKey,        \* stands for mod_libuuid.v4(): the next unused key
    published,      \* per publish() call: the key, the item, the cb(err) calls
    observations    \* history: the 'record' events handled, each with the
                    \* websockets that were sent the record's wire text

vars == << budget, moray, bucket, setup, emitted, conn, listening, sent, registrations,
           websockets, uncaught, texts, registered, pollInterval,
           timers, nStarts, halted,
           clock, reqs, store, writes, nextKey, published, observations >>

bootVars == << moray, bucket, setup >>
connVars == << conn, listening, sent, registrations, websockets, uncaught, texts,
              registered >>
pollVars == << pollInterval, timers, nStarts, halted, clock, reqs >>
dataVars == << store, writes, nextKey, published, observations >>

\* JavaScript objects used as maps: the empty object, obj[k] = v, delete obj[k].
EmptyMap == [k \in {} |-> k]
Put(obj, k, v) == [x \in DOMAIN obj \cup {k} |-> IF x = k THEN v ELSE obj[x]]
Delete(obj, ks) == [x \in DOMAIN obj \ ks |-> obj[x]]

\* self.emit(name)
Emit(name) == emitted' = [emitted EXCEPT ![name] = @ + 1]

\* self.morayBucket.config (lines 62-69)
BucketConfig == [exists |-> TRUE, index |-> "published"]
NoBucket     == [exists |-> FALSE, index |-> ""]

Init ==
    /\ moray = "connecting"
    /\ bucket \in {NoBucket, BucketConfig}
    /\ setup = [pc |-> "idle", getErr |-> "none", cbs |-> <<>>]
    /\ emitted = [connected |-> 0, ready |-> 0, itemPublished |-> 0, noItems |-> 0]
    /\ conn = [c \in Conns |-> "none"]
    /\ listening = [c \in Conns |-> FALSE]
    /\ sent = [c \in Conns |-> <<>>]
    /\ registrations = EmptyMap
    /\ websockets = EmptyMap
    /\ uncaught = 0
    /\ texts = [c \in Conns |-> 0]
    /\ registered = [c \in Conns |-> ""]
    /\ pollInterval = 0
    /\ timers = {}
    /\ nStarts = 0
    /\ halted = FALSE
    /\ clock = 1
    /\ reqs = << >>
    /\ store = EmptyMap
    /\ writes = {}
    /\ nextKey = 1
    /\ published = << >>
    /\ observations = {}

\* ---- store bootstrap ------------------------------------------------------

\* Mutant of BucketLoaded: _bucketSetupError without its test of err.
BucketLoadedAlways(err) == TRUE

\* _bucketSetupError(err), lines 96-103: the bucket counts as loaded, and
\* moray-ready is emitted, iff err is null.
BucketLoaded(err) == err = "null"

\* morayClient 'connect', lines 88-104: emits moray-connected and starts
\* _setupBucket, which issues getBucket (lines 288-290, 258-260).
MorayConnect ==
    /\ moray = "connecting"
    /\ moray' = "connected"
    /\ Emit("connected")
    /\ setup' = [setup EXCEPT !.pc = "getBucket"]
    /\ UNCHANGED << budget, bucket, connVars, pollVars, dataVars >>

\* The errors getBucket may call back with.
GetBucketErrors ==
    (IF bucket.exists /\ moray = "connected" THEN {"null"} ELSE {})
    \cup (IF ~bucket.exists THEN {"BucketNotFoundError"} ELSE {})
    \cup {"OtherError"}

\* Which cb invocations _getBucketError(err) makes before it returns, lines
\* 290-300: on BucketNotFoundError it issues _createBucket(cb) and then falls
\* through to cb(err) at line 299.
GetBucketCreates(err) == err = "BucketNotFoundError"

\* _getBucketError(err), lines 290-300.
GetBucketError ==
    /\ setup.pc = "getBucket"
    /\ \E err \in GetBucketErrors :
        /\ setup' = [pc |-> IF GetBucketCreates(err) THEN "createBucket" ELSE "done",
                     getErr |-> err, cbs |-> Append(setup.cbs, err)]
        /\ IF BucketLoaded(err) THEN Emit("ready") ELSE UNCHANGED emitted
    /\ UNCHANGED << budget, moray, bucket, connVars, pollVars, dataVars >>

\* Completion of morayClient.createBucket(name, config, cb), lines 253-256:
\* cb is _bucketSetupError itself.
CreateBucketDone ==
    /\ setup.pc = "createBucket"
    /\ \E ok \in (IF moray = "connected" THEN {TRUE, FALSE} ELSE {FALSE}) :
        /\ bucket' = IF ok /\ ~bucket.exists THEN BucketConfig ELSE bucket
        /\ setup' = [setup EXCEPT !.pc = "done",
                        !.cbs = Append(@, IF ok THEN "null" ELSE "OtherError")]
        /\ IF BucketLoaded(IF ok THEN "null" ELSE "OtherError")
           THEN Emit("ready") ELSE UNCHANGED emitted
    /\ UNCHANGED << budget, moray, connVars, pollVars, dataVars >>

\* ---- websocket listeners ---------------------------------------------------

\* server 'upgrade', lines 109-163: shed.accept yields a new websocket with a
\* once('text') listener and 'end'/'connectionReset' listeners attached.
Upgrade(c) ==
    /\ c <= budget.conns
    /\ conn[c] = "none"
    /\ \A d \in Conns : d < c => conn[d] # "none"
    /\ conn' = [conn EXCEPT ![c] = "open"]
    /\ listening' = [listening EXCEPT ![c] = TRUE]
    /\ UNCHANGED << budget, sent, registrations, websockets, uncaught, texts, registered,
                    emitted, bootVars, pollVars, dataVars >>

\* The loop of lines 125-132 from index i on: the last descriptor whose
\* resource equals the registration's, or the response found so far.
RECURSIVE FindResponse(_, _, _)
FindResponse(registration, i, response) ==
    IF i > Len(resources) THEN response
    ELSE FindResponse(registration, i + 1,
                      IF resources[i].resource = registration.resource
                      THEN <<resources[i]>> ELSE response)

\* Mutant of TextHandled: websocket.on('text', ...) instead of once.
TextAlwaysHandled(c) == TRUE

\* Does websocket.once('text', ...) still deliver a frame to _register:
\* line 121, only the first frame of a websocket.
TextHandled(c) == listening[c]

\* _register(text), lines 121-140, on websocket c.
Register(c, text) ==
    IF JSONparseThrows(text)
    THEN /\ uncaught' = uncaught + 1
         /\ UNCHANGED << sent, registrations, websockets, registered >>
    ELSE LET registration == JSONparse(text)
             response == FindResponse(registration, 1, <<>>)
         IN /\ websockets' = Put(websockets, registration.instance, c)
            /\ registrations' = Put(registrations, registration.instance, registration)
            /\ sent' = IF response # <<>>
                       THEN [sent EXCEPT ![c] = Append(@, JSONstringify(response[1]))]
                       ELSE sent
            /\ registered' = [registered EXCEPT ![c] = registration.instance]
            /\ UNCHANGED uncaught

\* The 'text' frames received so far, over the websockets from c on.
RECURSIVE TextsFrom(_)
TextsFrom(c) == IF c \in Conns THEN texts[c] + TextsFrom(c + 1) ELSE 0

\* A 'text' frame arrives on websocket c.
Text(c, text) ==
    /\ TextsFrom(1) < budget.texts
    /\ conn[c] = "open"
    /\ texts' = [texts EXCEPT ![c] = @ + 1]
    /\ listening' = [listening EXCEPT ![c] = FALSE]
    /\ IF TextHandled(c)
       THEN Register(c, text)
       ELSE UNCHANGED << sent, registrations, websockets, uncaught, registered >>
    /\ UNCHANGED << budget, conn, emitted, bootVars, pollVars, dataVars >>

\* Mutant of Collected: collecting by the instance the websocket registered
\* instead of by the websocket the entry holds.
CollectedByInstance(c) == {registered[c]} \cap DOMAIN registrations

\* Mutant of Collected: the loops of lines 144-150 and 153-159 without their
\* test of _id.
CollectedAll(c) == DOMAIN registrations

\* The instances _end/_connectionReset collect for websocket c: those whose
\* stored websocket has c's _id (lines 144-145, 153-154).
Collected(c) == { instance \in DOMAIN registrations : websockets[instance] = c }

\* Mutant of End: an 'end' listener that forgets the websocket but keeps the
\* registration (without line 148).
EndKeepsRegistration(c) ==
    /\ conn[c] = "open"
    /\ conn' = [conn EXCEPT ![c] = "closed"]
    /\ websockets' = Delete(websockets, Collected(c))
    /\ UNCHANGED << budget, listening, sent, registrations, uncaught, texts, registered,
                    emitted, bootVars, pollVars, dataVars >>

\* _end(), lines 143-151.
End(c) ==
    /\ conn[c] = "open"
    /\ conn' = [conn EXCEPT ![c] = "closed"]
    /\ websockets' = Delete(websockets, Collected(c))
    /\ registrations' = Delete(registrations, Collected(c))
    /\ UNCHANGED << budget, listening, sent, uncaught, texts, registered,
                    emitted, bootVars, pollVars, dataVars >>

\* _connectionReset(), lines 152-160.
ConnectionReset(c) ==
    /\ conn[c] = "open"
    /\ conn' = [conn EXCEPT ![c] = "closed"]
    /\ websockets' = Delete(websockets, Collected(c))
    /\ registrations' = Delete(registrations, Collected(c))
    /\ UNCHANGED << budget, listening, sent, uncaught, texts, registered,
                    emitted, bootVars, pollVars, dataVars >>

\* _getStats, lines 262-276: the body of the stats response when the
\* registry is regs.
GetStats(regs) == [listeners |-> Cardinality(DOMAIN regs), registrations |-> regs]


\* ---- start / stop ------------------------------------------------------------

\* clearInterval(handle): cancels that timer only; a null or stale handle
\* cancels nothing.
ClearInterval(active, handle) == active \ {handle}

\* start(), lines 183-241: setInterval creates a new timer and its handle
\* replaces self.pollInterval.
Start ==
    /\ nStarts < budget.starts
    /\ nStarts' = nStarts + 1
    /\ timers' = timers \cup {nStarts + 1}
    /\ pollInterval' = nStarts + 1
    /\ halted' = FALSE
    /\ UNCHANGED << budget, clock, reqs, emitted, bootVars, connVars, dataVars >>

\* stop(), lines 171-175.
Stop ==
    /\ timers' = ClearInterval(timers, pollInterval)
    /\ moray' = "closed"
    /\ halted' = TRUE
    /\ UNCHANGED << budget, pollInterval, nStarts, clock, reqs, bucket, setup, emitted,
                    connVars, dataVars >>

\* ---- the poll loop ---------------------------------------------------------

\* The moray client can send a request only while it is connected; a
\* request made otherwise fails at once, before any other event is handled.
Connected == moray = "connected"

\* The elements of a list.
Elems(list) == { list[i] : i \in 1..Len(list) }

\* Mutant of Deliverable: the test of line 213 alone, without the scan of the
\* subResources (lines 216-217).
DeliverableByResource(registration, value) ==
    registration.resource = value.resource

\* Lines 213-223: does the registration get the value: equal resource and
\* some subResources[i] of the value found in the registration's subResources.
Deliverable(registration, value) ==
    /\ registration.resource = value.resource
    /\ \E i \in 1..Len(value.subResources) :
           value.subResources[i] \in Elems(registration.subResources)

\* Mutant of Sends: the loop of lines 216-223 without its break, sending once
\* for every element of the value's subResources the registration has.
SendsPerElement(registration, value) ==
    IF registration.resource = value.resource
    THEN Cardinality({ i \in 1..Len(value.subResources) :
                         value.subResources[i] \in Elems(registration.subResources) })
    ELSE 0

\* How often the loop of lines 216-223 sends the value to the registration's
\* websocket: once if it is deliverable, since the loop breaks after a send.
Sends(registration, value) == IF Deliverable(registration, value) THEN 1 ELSE 0

\* The instances of the registry the loop of lines 209-227 sends the value to.
Receivers(value) ==
    { instance \in DOMAIN registrations : Sends(registrations[instance], value) > 0 }

\* Mutant of Selected: findObjects without the published filter.
SelectedAll(value) == TRUE

\* The filter '(published=no)' of line 189.
Selected(value) == value.published = "no"

\* Two changeKinds match: equal resource, intersecting subResources.
Match(a, b) ==
    /\ a.resource = b.resource
    /\ Elems(a.subResources) \cap Elems(b.subResources) # {}

\* History, taken when a tick fires: the keys whose published field is "no",
\* and for each of them the websockets of the registry entries that match it.
TickView ==
    LET unpublished == { k \in DOMAIN store : store[k].published = "no" }
        matching(k) == { i \in DOMAIN registrations : Match(registrations[i], store[k]) }
    IN [unpublished |-> unpublished,
        due |-> UNION { { <<k, websockets[i]>> : i \in matching(k) } : k \in unpublished }]

\* _poll(), lines 188-240, fired by timer h: issues findObjects and attaches
\* the three listeners.  A tick takes the clock forward.
Poll(h) ==
    /\ Len(reqs) < budget.ticks
    /\ h \in timers
    /\ reqs' = Append(reqs, [state |-> IF Connected THEN "issued" ELSE "errored",
                             pending |-> <<>>, view |-> TickView])
    /\ clock' = clock + 1
    /\ UNCHANGED << budget, pollInterval, timers, nStarts, halted, emitted,
                    bootVars, connVars, dataVars >>

\* The records of the keys from k on that the filter selects, in key order.
RECURSIVE FindObjects(_)
FindObjects(k) ==
    IF k >= nextKey THEN <<>>
    ELSE IF k \in DOMAIN store /\ Selected(store[k])
         THEN <<[key |-> k, value |-> store[k]]>> \o FindObjects(k + 1)
         ELSE FindObjects(k + 1)

\* The server answers request r: its records are queued for 'record' events.
FindObjectsReply(r) ==
    /\ r \in DOMAIN reqs
    /\ reqs[r].state = "issued"
    /\ bucket.exists
    /\ reqs' = [reqs EXCEPT ![r].state = "streaming", ![r].pending = FindObjects(1)]
    /\ UNCHANGED << budget, pollInterval, timers, nStarts, halted, clock, emitted,
                    bootVars, connVars, dataVars >>

\* Mutant of ReqErr: an error listener that reports the end of the query as
\* the 'end' listener does.
ReqErrNoItems(r) ==
    /\ r \in DOMAIN reqs
    /\ reqs[r].state \in {"issued", "streaming"}
    /\ reqs' = [reqs EXCEPT ![r].state = "errored", ![r].pending = <<>>]
    /\ Emit("noItems")
    /\ UNCHANGED << budget, pollInterval, timers, nStarts, halted, clock,
                    bootVars, connVars, dataVars >>

\* _reqErr(err), lines 190-192: the request ends with an error; it is logged.
ReqErr(r) ==
    /\ r \in DOMAIN reqs
    /\ reqs[r].state \in {"issued", "streaming"}
    /\ reqs' = [reqs EXCEPT ![r].state = "errored", ![r].pending = <<>>]
    /\ UNCHANGED << budget, pollInterval, timers, nStarts, halted, clock, emitted,
                    bootVars, connVars, dataVars >>

\* Date.now().toString(), line 197.
Now == ToString(clock)

\* The sends of lines 209-227 that go to the websockets in cs, over the
\* instances in to.
RECURSIVE SendsTo(_, _, _)
SendsTo(cs, to, value) ==
    IF to = {} THEN 0
    ELSE LET i == CHOOSE i \in to : TRUE
         IN (IF websockets[i] \in cs THEN Sends(registrations[i], value) ELSE 0)
            + SendsTo(cs, to \ {i}, value)

\* strValue after lines 198-203: the wire text of value, or null when
\* JSON.stringify threw and the catch block logged it.
StrValue(value) == IF JSONstringifyThrows(value) THEN Null ELSE JSONstringify(value)

\* What a call websocket.send(text) does (line 218; the websocket is
\* watershed's): a string is sent as a text frame; for null the call either
\* throws or writes a frame.
SendOutcomes(text) == IF text = Null THEN {"throws", "sent"} ELSE {"sent"}

\* n copies of text.
RECURSIVE Copies(_, _)
Copies(text, n) == IF n = 0 THEN <<>> ELSE <<text>> \o Copies(text, n - 1)

\* Mutant of Marked: _record without the assignment of line 197.
Unmarked(value) == value

\* The value _record writes back, line 197: the record's value with published
\* set to the current time.
Marked(value) == [value EXCEPT !.published = Now]

\* The putObject requests in flight after one more is made.
Issue(w) == IF Connected THEN writes \cup {w} ELSE writes

\* _record(record), lines 194-234, for the next record of request r.
Record(r) ==
    /\ r \in DOMAIN reqs
    /\ reqs[r].state = "streaming"
    /\ reqs[r].pending # <<>>
    /\ LET record == Head(reqs[r].pending)
           value == Marked(record.value)
           strValue == StrValue(value)
           to == Receivers(value)
       IN \E outcome \in (IF to = {} THEN {"sent"} ELSE SendOutcomes(strValue)) :
            IF outcome = "throws"
            THEN \* the first send throws: the exception leaves _record
                 /\ uncaught' = uncaught + 1
                 /\ observations' = observations \cup
                        {[key |-> record.key, req |-> r, to |-> {}]}
                 /\ UNCHANGED << sent, emitted, writes >>
            ELSE /\ sent' = [c \in Conns |->
                                sent[c] \o Copies(strValue, SendsTo({c}, to, value))]
                 /\ emitted' = [emitted EXCEPT !.itemPublished =
                                    @ + SendsTo(Conns, to, value)]
                 /\ writes' = Issue([key |-> record.key, value |-> value, req |-> r])
                 /\ observations' = observations \cup
                        {[key |-> record.key, req |-> r,
                          to |-> IF strValue = Null THEN {}
                                 ELSE {websockets[i] : i \in to}]}
                 /\ UNCHANGED uncaught
    /\ reqs' = [reqs EXCEPT ![r].pending = Tail(@)]
    /\ UNCHANGED << budget, pollInterval, timers, nStarts, halted, clock, bootVars,
                    conn, listening, registrations, websockets, texts,
                    registered,
                    store, nextKey, published >>

\* _noItems(), lines 236-239: the 'end' of request r.
NoItems(r) ==
    /\ r \in DOMAIN reqs
    /\ reqs[r].state = "streaming"
    /\ reqs[r].pending = <<>>
    /\ reqs' = [reqs EXCEPT ![r].state = "ended"]
    /\ Emit("noItems")
    /\ UNCHANGED << budget, pollInterval, timers, nStarts, halted, clock,
                    bootVars, connVars, dataVars >>

\* The outcomes of a putObject request that was sent: it can succeed only
\* if the bucket exists.
PutOutcomes == IF bucket.exists THEN {"null", "OtherError"} ELSE {"OtherError"}

\* The store after putObject(bucket, key, value) ended with err.
PutObject(w, err) == IF err = "null" THEN Put(store, w.key, w.value) ELSE store

\* The putObject requests that may be in flight: those of line 231, made for
\* a request r and a key, and those of line 285, made by publish (req is 0).
Keys == 1..MaxPublish
Values == { [item EXCEPT !.published = p] :
              item \in Items, p \in {"no"} \cup { ToString(t) : t \in 1..(MaxTicks + 1) } }
MarkWrites == [key : Keys, value : Values, req : 1..MaxTicks]
PublishWrites == [key : Keys, value : Items, req : {0}]

\* _mark(), lines 231-233: the write of line 231 completes; its error is
\* not looked at.
Mark(w) ==
    /\ w \in writes
    /\ \E err \in PutOutcomes : store' = PutObject(w, err)
    /\ writes' = writes \ {w}
    /\ UNCHANGED << budget, nextKey, published, observations, emitted,
                    bootVars, connVars, pollVars >>

\* ---- publish -----------------------------------------------------------------

\* mod_libuuid.v4(), line 285: a key no object has.
Uuid == nextKey

\* Mutant of PublishedValue: publish stamping the item as published.
StampedValue(item) == [item EXCEPT !.published = Now]

\* The value publish stores for item, lines 247-251 and 283-286: item itself.
PublishedValue(item) == item

\* publish(item, cb), lines 247-251, with _putObject, lines 283-286.
Publish(item) ==
    /\ Len(published) < budget.publish
    /\ writes' = Issue([key |-> Uuid, value |-> PublishedValue(item), req |-> 0])
    /\ nextKey' = nextKey + 1
    /\ published' = Append(published,
            [key |-> Uuid, item |-> item,
             cbs |-> IF Connected THEN <<>> ELSE <<"OtherError">>])
    /\ UNCHANGED << budget, store, observations, emitted, bootVars, connVars, pollVars >>

\* The index in published of the publish() call that issued write w.
CallOf(w) == CHOOSE n \in DOMAIN published : published[n].key = w.key

\* The callback of line 248: the write of publish completes and cb(err) runs.
PublishCb(w) ==
    /\ w \in writes
    /\ \E err \in PutOutcomes :
        /\ store' = PutObject(w, err)
        /\ published' = [published EXCEPT ![CallOf(w)].cbs = Append(@, err)]
    /\ writes' = writes \ {w}
    /\ UNCHANGED << budget, nextKey, observations, emitted, bootVars, connVars, pollVars >>

\* ---- the system ------------------------------------------------------------------

\* One step of the system: any handler that has something to handle.
Next ==
    \/ MorayConnect
    \/ GetBucketError
    \/ CreateBucketDone
    \/ \E c \in Conns : Upgrade(c)
    \/ \E c \in Conns, text \in Texts : Text(c, text)
    \/ \E c \in Conns : End(c)
    \/ \E c \in Conns : ConnectionReset(c)
    \/ Start
    \/ Stop
    \/ \E h \in 1..MaxStarts : Poll(h)
    \/ \E r \in 1..MaxTicks : FindObjectsReply(r)
    \/ \E r \in 1..MaxTicks : ReqErr(r)
    \/ \E r \in 1..MaxTicks : Record(r)
    \/ \E r \in 1..MaxTicks : NoItems(r)
    \/ \E w \in MarkWrites : Mark(w)
    \/ \E item \in Items : Publish(item)
    \/ \E w \in PublishWrites : PublishCb(w)

\* The specifications differ in the budget only: each takes one part of the
\* environment to its bound and keeps the rest to one of each.

\* The poll loop at its bounds: overlapping ticks over one published item.
InitPoll ==
    /\ Init
    /\ budget = [conns |-> 1, texts |-> 1, starts |-> 1, ticks |-> MaxTicks,
                 publish |-> 1]

Spec == InitPoll /\ [][Next]_vars

\* The listeners at their bounds.
InitListeners ==
    /\ Init
    /\ budget = [conns |-> MaxConns, texts |-> MaxTexts, starts |-> 1, ticks |-> 1,
                 publish |-> 1]

SpecListeners == InitListeners /\ [][Next]_vars

\* The producers at their bounds.
InitPublish ==
    /\ Init
    /\ budget = [conns |-> 1, texts |-> 1, starts |-> 1, ticks |-> 1,
                 publish |-> MaxPublish]

SpecPublish == InitPublish /\ [][Next]_vars

\* The start() and stop() calls at their bounds.
InitLifecycle ==
    /\ Init
    /\ budget = [conns |-> 1, texts |-> 1, starts |-> MaxStarts, ticks |-> 1,
                 publish |-> 1]

SpecLifecycle == InitLifecycle /\ [][Next]_vars

\* ---- properties ----------------------------------------------------------------

\* The resource names the configuration describes.
Configured == { resources[d].resource : d \in DOMAIN resources }

\* The timestamps Date.now().toString() has been able to give so far.
Timestamps == { ToString(t) : t \in 1..clock }

\* This step is the 'record' event of request r.
IsRecord(r) ==
    /\ reqs[r].state = "streaming"
    /\ reqs[r].pending # <<>>
    /\ reqs'[r] = [reqs[r] EXCEPT !.pending = Tail(@)]

\* This step is the 'record' event of request r, for a record whose value
\* JSON.stringify serializes.
IsSerializedRecord(r) ==
    /\ IsRecord(r)
    /\ ~JSONstringifyThrows(Head(reqs[r].pending).value)

\* This step completes the putObject request w and changes the store.
IsWritten(w) == w \in writes /\ w \notin writes' /\ store' # store

\* Request r has handed key k to a 'record' event or still will.
Pending(r, k) == \E j \in 1..Len(reqs[r].pending) : reqs[r].pending[j].key = k

\* The 'record' events handled for key k.
Observed(k) == { o \in observations : o.key = k }

\* C7: when getBucket fails with BucketNotFoundError the bucket is created
\* with the index on published and moray-ready is emitted, once, when the
\* creation has succeeded and not before; when getBucket fails with any other
\* error, moray-ready is never emitted.
C7_Bootstrap ==
    /\ setup.getErr = "OtherError" => emitted.ready = 0
    /\ setup.getErr = "BucketNotFoundError" =>
         IF setup.pc = "done" /\ setup.cbs[Len(setup.cbs)] = "null"
         THEN emitted.ready = 1 /\ bucket = BucketConfig
         ELSE emitted.ready = 0

C7_Witness ==
    /\ setup.getErr = "BucketNotFoundError"
    /\ setup.pc = "done"
    /\ emitted.ready = 1

\* C9 (as claimed): no tick issues findObjects unless moray-ready has been
\* emitted.
C9_PollOnlyWhenReady == reqs # <<>> => emitted.ready > 0

\* C3 (as claimed): a first message whose resource no descriptor has never
\* creates a registry entry, so every entry's resource is a configured one and
\* the stats count only such listeners.
C3_OnlyValidRegistered ==
    \A instance \in DOMAIN GetStats(registrations).registrations :
        registrations[instance].resource \in Configured

\* C4 (as claimed): when a websocket that registered an instance ends or is
\* reset, the registry has no entry for that instance afterwards and the stats
\* listener count is one less than before.
C4_TerminationRemoves ==
    [][\A c \in Conns :
         (conn[c] = "open" /\ conn'[c] = "closed" /\ registered[c] # "") =>
            /\ registered[c] \notin DOMAIN registrations'
            /\ GetStats(registrations').listeners = GetStats(registrations).listeners - 1
      ]_vars

\* C4 (amended): when a websocket ends or is reset, no registry entry holds
\* that websocket afterwards; if the entry of the instance it registered
\* still held that websocket, that entry alone is removed and the stats
\* listener count is one less than before; otherwise (it never registered, or
\* another websocket has registered the same instance since) the registry is
\* unchanged.
C4_TerminationCollects ==
    [][\A c \in Conns :
         (conn[c] = "open" /\ conn'[c] = "closed") =>
            /\ \A i \in DOMAIN websockets' : websockets'[i] # c
            /\ DOMAIN websockets' = DOMAIN registrations'
            /\ IF /\ registered[c] \in DOMAIN registrations
                  /\ websockets[registered[c]] = c
               THEN /\ registrations' = Delete(registrations, {registered[c]})
                    /\ GetStats(registrations').listeners
                         = GetStats(registrations).listeners - 1
               ELSE registrations' = registrations
      ]_vars

C4_Witness ==
    \E c \in Conns :
        /\ conn[c] = "closed"
        /\ registered[c] # ""
        /\ registered[c] \notin DOMAIN registrations

\* C5: a 'text' frame that is not the first one of its websocket changes
\* neither the registry nor what has been sent on any websocket.
C5_OneShotHandshake ==
    [][\A c \in Conns :
         (texts[c] >= 1 /\ texts'[c] = texts[c] + 1) =>
            /\ registrations' = registrations
            /\ websockets' = websockets
            /\ sent' = sent
      ]_vars

C5_Witness ==
    \E c \in Conns :
        /\ texts[c] >= 2
        /\ registered[c] \in DOMAIN registrations
        /\ websockets[registered[c]] = c
        /\ sent[c] # <<>>

\* The copies of the record of key k that websocket c has been sent.
CopiesSent(c, k) == Cardinality({ o \in Observed(k) : c \in o.to })

\* The tick of request r is over: its query has ended and the writes of its
\* 'record' events have completed.
Settled(r) ==
    /\ reqs[r].state \in {"ended", "errored"}
    /\ \A w \in writes : w.req # r

\* The mark write a 'record' event of request r makes for the record rec.
MarkOf(r, rec) ==
    [key |-> rec.key, value |-> [rec.value EXCEPT !.published = ToString(clock)], req |-> r]

C2_UnmatchedNeverSent ==
    \A o \in observations :
        o.to = {} => \A later \in Observed(o.key) : later.to = {}

\* The record of key k is marked in the store and no query result that is
\* still being handled holds it.
Lost(k) ==
    /\ store[k].published # "no"
    /\ \A r \in DOMAIN reqs : ~Pending(r, k)

\* C2 (amended): handling a record that no registry entry matches sends
\* nothing, emits nothing and issues the write that marks it; and once the
\* record is marked in the store and no query result still holds it, no tick
\* observes it again: it is lost.  (A query answered before the mark write
\* succeeded still holds the record, and the tick of that query handles it
\* again, delivering it if an entry matches by then.)
C2_UnmatchedMarkedAndLost ==
    [][/\ \A r \in DOMAIN reqs :
            (IsRecord(r) /\ \A i \in DOMAIN registrations :
                                ~Match(registrations[i], Head(reqs[r].pending).value)) =>
                /\ sent' = sent
                /\ emitted' = emitted
                /\ Connected => MarkOf(r, Head(reqs[r].pending)) \in writes' \ writes
       /\ \A k \in DOMAIN store :
            Lost(k) => /\ k \in DOMAIN store'
                       /\ store'[k].published # "no"
                       /\ \A r \in DOMAIN reqs' :
                            \A j \in 1..Len(reqs'[r].pending) : reqs'[r].pending[j].key # k
                       /\ { o \in observations' : o.key = k } = Observed(k)
      ]_vars

C2_Witness ==
    \E o \in observations :
        /\ o.to = {}
        /\ Lost(o.key)
        /\ \A c \in Conns : sent[c] = <<>>

\* C6 (as claimed): while the publisher is stopped no tick fires, no
\* item-published and no no-items event is emitted, and no object of the
\* store is changed.
C6_QuietAfterStop ==
    [][(halted /\ halted') =>
            /\ Len(reqs') = Len(reqs)
            /\ emitted'.itemPublished = emitted.itemPublished
            /\ emitted'.noItems = emitted.noItems
            /\ \A k \in DOMAIN store : store'[k] = store[k]
      ]_vars

\* C8 (as claimed): no record is observed a second time.
C8_ObservedOnce ==
    \A o1, o2 \in observations : o1.key = o2.key => o1 = o2

\* C8 (amended): a query returns a record only while its published field in
\* the store is "no", and each such record once; handling it, when its value
\* serializes, issues a write of the record's value with published set to
\* the current time as a string; a write that completes either leaves the
\* store as it is or stores that value; and a published field that is not
\* "no" never becomes "no" again.
\* (A record is observed, delivered and written back once by every tick whose
\* query is answered while the field is still "no".)
C8_MarkedOnceObservedWhileNo ==
    [][/\ \A r \in DOMAIN reqs :
            (reqs[r].state = "issued" /\ reqs'[r].state = "streaming") =>
                LET got == reqs'[r].pending
                IN /\ \A j \in 1..Len(got) :
                        /\ got[j].key \in DOMAIN store
                        /\ got[j].value = store[got[j].key]
                        /\ store[got[j].key].published = "no"
                   /\ \A j1, j2 \in 1..Len(got) : got[j1].key = got[j2].key => j1 = j2
       /\ \A r \in DOMAIN reqs :
            (IsSerializedRecord(r) /\ Connected) =>
                /\ MarkOf(r, Head(reqs[r].pending)) \in writes'
                /\ MarkOf(r, Head(reqs[r].pending)).value.published \in Timestamps
       /\ \A w \in writes :
            (w.req # 0 /\ w \notin writes') =>
                store' \in {store, Put(store, w.key, w.value)}
       /\ \A k \in DOMAIN store :
            store[k].published # "no" =>
                k \in DOMAIN store' /\ store'[k].published # "no"
      ]_vars

C8_Witness ==
    \E o1, o2 \in observations :
        /\ o1.key = o2.key
        /\ o1.req # o2.req
        /\ store[o1.key].published \in Timestamps

\* The publish() calls whose write has succeeded.
Stored == { n \in DOMAIN published : published[n].cbs = <<"null">> }

\* C10: every publish(item, cb) call writes under a key of its own; cb has
\* been called at most once, and exactly once when the write is no longer in
\* flight; it was called with null exactly if the store holds an object under
\* the call's key, and that object is item, with published replaced by a
\* timestamp if a tick has observed it; the store holds no other objects.
C10_Publish ==
    /\ \A n, m \in DOMAIN published : published[n].key = published[m].key => n = m
    /\ \A n \in DOMAIN published :
        LET call == published[n]
            inFlight == \E w \in writes : w.req = 0 /\ w.key = call.key
        IN /\ Len(call.cbs) = (IF inFlight THEN 0 ELSE 1)
           /\ inFlight => [key |-> call.key, value |-> call.item, req |-> 0] \in writes
           /\ call.key \in DOMAIN store <=> n \in Stored
           /\ n \in Stored =>
                \/ store[call.key] = call.item
                \/ /\ Observed(call.key) # {}
                   /\ call.item.published = "no"
                   /\ store[call.key].published \in Timestamps
                   /\ store[call.key] = [call.item EXCEPT !.published = store[call.key].published]
    /\ Cardinality(DOMAIN store) = Cardinality(Stored)

C10_Witness ==
    /\ Cardinality(Stored) = 2
    /\ \A n \in Stored : store[published[n].key] = published[n].item

\* The registry entries whose changeKind and the value's have the same
\* resource and intersecting subResources.
Matching(value) == { i \in DOMAIN registrations : Match(registrations[i], value) }

\* C11: handling one observed record, whose value serializes, sends one text
\* to the websocket of every registry entry whose resource equals the
\* record's and whose subResources intersect the record's, however many
\* elements intersect, and emits item-published once for each such entry; the
\* websockets of the other entries, and the websockets no entry holds, are
\* sent nothing.
C11_SentIffMatching ==
    [][\A r \in DOMAIN reqs :
         IsSerializedRecord(r) =>
            LET value == Head(reqs[r].pending).value
            IN /\ \A i \in DOMAIN registrations :
                    Len(sent'[websockets[i]]) =
                        Len(sent[websockets[i]]) + (IF i \in Matching(value) THEN 1 ELSE 0)
               /\ \A c \in Conns :
                    (\A i \in DOMAIN registrations : websockets[i] # c) => sent'[c] = sent[c]
               /\ emitted'.itemPublished =
                    emitted.itemPublished + Cardinality(Matching(value))
      ]_vars

C11_Witness ==
    \E o \in observations, i, j \in DOMAIN registrations :
        /\ websockets[i] \in o.to
        /\ websockets[j] \notin o.to
        /\ Len(registrations[i].subResources) = 2
        /\ \E w \in writes : w.key = o.key /\ Len(w.value.subResources) = 2
        /\ Len(sent[websockets[i]]) = 2
        /\ registrations[j].resource # registrations[i].resource
        /\ sent[websockets[j]] = <<>>
        /\ emitted.itemPublished = 1

\* C12 (as claimed): no-items is emitted only when a tick's query reaches its
\* end without an error and without any record having been observed for it.
C12_NoItemsOnlyWhenNoRecords ==
    [][emitted'.noItems # emitted.noItems =>
         \E r \in DOMAIN reqs :
            /\ reqs[r].state = "streaming"
            /\ reqs'[r].state = "ended"
            /\ \A o \in observations : o.req # r
      ]_vars

\* C13 (as claimed): handling a record whose value fails to serialize sends
\* nothing to any websocket and emits no item-published, and still issues the
\* write that sets the record's published field to the current time.
C13_UnserializableSkippedAndMarked ==
    [][\A r \in DOMAIN reqs :
         (IsRecord(r) /\ JSONstringifyThrows(Head(reqs[r].pending).value)) =>
            /\ sent' = sent
            /\ emitted'.itemPublished = emitted.itemPublished
            /\ Connected => MarkOf(r, Head(reqs[r].pending)) \in writes' \ writes
      ]_vars

\* C14 (as claimed): a tick whose query ended with an error has sent nothing
\* to any websocket.
C14_ErrorTickSentNothing ==
    \A r \in DOMAIN reqs :
        reqs[r].state = "errored" => \A o \in observations : o.req = r => o.to = {}

\* Request r gets its error signal in this step.
IsReqErr(r) ==
    /\ r \in DOMAIN reqs => reqs[r].state # "errored"
    /\ reqs'[r].state = "errored"

\* C14 (amended): handling the error signal of a tick's query takes no action
\* beyond logging: it emits no signal, sends nothing to any websocket, changes
\* no store record, issues no write, changes no registry entry and leaves the
\* timers as they are; and the query of any tick, when it is answered, returns
\* exactly the records whose published field is "no" at that time, so those a
\* failed query left unmarked are selected again.  (The records the failed
\* query handed over before its error were handled as those of any tick.)
C14_ErrorOnlyLogged ==
    [][/\ \A r \in DOMAIN reqs' :
            IsReqErr(r) =>
                /\ emitted' = emitted
                /\ sent' = sent
                /\ store' = store
                /\ writes' = writes
                /\ registrations' = registrations
                /\ websockets' = websockets
                /\ timers' = timers
                /\ pollInterval' = pollInterval
       /\ \A r \in DOMAIN reqs :
            (reqs[r].state = "issued" /\ reqs'[r].state = "streaming") =>
                { reqs'[r].pending[j].key : j \in 1..Len(reqs'[r].pending) }
                    = { k \in DOMAIN store : store[k].published = "no" }
      ]_vars

C14_Witness ==
    \E o \in observations :
        /\ reqs[1].state = "errored"
        /\ o.req = 2
        /\ o.key \in reqs[1].view.unpublished
        /\ \A o1 \in observations : o1.req # 1

\* C15 (as claimed): when the first 'text' frame of a websocket is not decoded
\* into a registration, the registry is unchanged, nothing is sent, the
\* websocket stays open and no exception leaves the handler.
C15_UndecodableRejected ==
    [][\A c \in Conns :
         (texts[c] = 0 /\ texts'[c] = 1 /\ registered'[c] = "") =>
            /\ registrations' = registrations
            /\ websockets' = websockets
            /\ sent' = sent
            /\ conn'[c] = "open"
            /\ uncaught' = uncaught
      ]_vars

\* C16: when a websocket ends or is reset, every registry entry that holds
\* another websocket stays as it is, with its websocket and its registration,
\* and no entry is added; so the entry of an instance that a second websocket
\* has registered since is left in place, and the termination of a websocket
\* that no entry holds leaves the whole registry unchanged.
C16_TerminationRemovesOnlyOwn ==
    [][\A c \in Conns :
         (conn[c] = "open" /\ conn'[c] = "closed") =>
            /\ DOMAIN registrations' \subseteq DOMAIN registrations
            /\ DOMAIN websockets' \subseteq DOMAIN websockets
            /\ \A i \in DOMAIN registrations :
                    websockets[i] # c =>
                        /\ i \in DOMAIN registrations' /\ i \in DOMAIN websockets'
                        /\ registrations'[i] = registrations[i]
                        /\ websockets'[i] = websockets[i]
            /\ (\A i \in DOMAIN registrations : websockets[i] # c) =>
                    registrations' = registrations /\ websockets' = websockets
      ]_vars

C16_Witness ==
    \E c, d \in Conns :
        /\ c # d
        /\ conn[c] = "closed"
        /\ conn[d] = "open"
        /\ registered[c] # ""
        /\ registered[d] = registered[c]
        /\ registered[c] \in DOMAIN registrations
        /\ websockets[registered[c]] = d
        /\ registrations[registered[c]].subResources = <<"nics", "tags">>

\* C17: the registrations map and the websockets map have the same instance
\* keys in every reachable state, so that every registration has a websocket.
C17_SameKeys ==
    /\ DOMAIN registrations = DOMAIN websockets
    /\ \A i \in DOMAIN registrations : websockets[i] \in Conns

C17_Witness ==
    /\ DOMAIN registrations # {}
    /\ \E c \in Conns : conn[c] = "closed" /\ registered[c] # ""
    /\ observations # {}

\* The handshake confirmations: the wire texts of the resource descriptors.
Confirmations == { JSONstringify(resources[d]) : d \in DOMAIN resources }

\* C18 (as claimed): a text is sent on a websocket only while the websocket
\* has not terminated, and the first text sent on it is its handshake
\* confirmation: no change record is sent before or without the confirmation.
C18_RecordsOnlyAfterConfirmation ==
    [][\A c \in Conns :
         sent'[c] # sent[c] =>
            /\ conn[c] = "open"
            /\ Head(sent'[c]) \in Confirmations
      ]_vars

\* C19 (as claimed): at most one poll timer is active at any time, and none
\* while the publisher is stopped.
C19_AtMostOneTimer ==
    /\ Cardinality(timers) <= 1
    /\ halted => timers = {}

\* C20 (as claimed): _setupBucket calls cb at most once, exactly once when it
\* is done, and then with the final outcome: null when the bucket exists or
\* was created, else the error of the request that failed; the error of a
\* getBucket that found no bucket is not reported.
C20_CallbackOnce ==
    /\ Len(setup.cbs) <= 1
    /\ setup.pc = "done" =>
            /\ Len(setup.cbs) = 1
            /\ setup.cbs[1] = "null" => bucket.exists
            /\ setup.getErr = "OtherError" => setup.cbs[1] = "OtherError"
    /\ \A n \in DOMAIN setup.cbs : setup.cbs[n] # "BucketNotFoundError"

====
